---- MODULE Spec2Model ----
(***************************************************************************)
(* State machine of homebridge-xiaomi-purifier: the MiAirPurifier          *)
(* accessory (src/src/accessory.ts) and the AirPurifierDevice it drives    *)
(* (src/src/device.ts).                                                    *)
(*                                                                         *)
(* JavaScript runs every callback to completion, so one action is one      *)
(* callback: the code from one resumption (an event, a timer, a settled    *)
(* promise) to the next await or return.                                   *)
(*                                                                         *)
(* Values of device properties are opaque tokens written as strings        *)
(* ("off", "0", "null"); "undefined" is JavaScript's undefined.            *)
(***************************************************************************)
EXTENDS Integers, Sequences, FiniteSets, TLC

VARIABLES
    intervalActive,  \* per accessory: one flag per setInterval made, TRUE until cleared
    closeCount,      \* calls of networkClient.close() so far
    launchesLeft,    \* environment: 'didFinishLaunching' events still to be emitted
    shutdownsLeft,   \* environment: 'shutdown' events still to be emitted
    status,          \* this.status of the observed accessory: ordered <<key, value>> entries
    cycles,          \* executions of updateState in flight, in order of start: where
                     \* each is, the key lists it has sent, the first result, and
                     \* whether an execution started after it has already finished
    lastStep,        \* what the step just taken did: its kind, for a poll cycle the
                     \* snapshot before it, the update functions it called, the key
                     \* lists it had sent and the results it got, and whether the
                     \* step ended the process
    timerId,         \* debounce: ms until timerExpired runs, NoTimer when none is set
    lastArgs,        \* debounce: the submission whose arguments are kept, 0 when none
    sinceLastCall,   \* debounce: ms since lastCallTime (up to the wait), -1 before any call
    submitted,       \* calls of setRotationSpeed so far: the speed, and whether the call
                     \* came less than the wait after the one before
    impls,           \* per submission: the execution of setRotationSpeedImpl for it
    sent,            \* commands given to the transport, in order, with their outcome
    cb,              \* per submission: the arguments its callback was called with, in order
    writes           \* calls of the other set handlers: the command, how often it was
                     \* sent, how often it failed, and the arguments its callback got

lifeVars == <<intervalActive, closeCount, launchesLeft, shutdownsLeft>>

pollVars == <<status, cycles>>

speedVars == <<timerId, lastArgs, sinceLastCall, submitted, impls, sent, cb>>

writeVars == <<writes>>

vars == <<lifeVars, pollVars, lastStep, speedVars, writeVars>>

----------------------------------------------------------------------------
(* Bounds of the model *)

NumAccessories == 2    \* accessory instances sharing the module-level networkClient
MaxLaunch == 2         \* 'didFinishLaunching' deliveries in the lifecycle specification
MaxShutdown == 2       \* 'shutdown' deliveries in the lifecycle specification
MaxInflight == 2       \* executions of updateState in flight at once
MaxSubmits == 3        \* calls of setRotationSpeed
MaxChanged == 1        \* properties a reported device state has away from their defaults
MaxWrites == 2         \* calls of the set handlers other than setRotationSpeed

Accessories == 1 .. NumAccessories

\* The accessory whose poll loop and commands are modelled; the others run the
\* same code on state of their own and share only networkClient.
Observed == CHOOSE a \in Accessories : \A b \in Accessories : a <= b

----------------------------------------------------------------------------
(* device.ts: the property keys and the default snapshot *)

\* Object.keys(DEFAULT_VALUE): the keys in declaration order
PropertyKeys ==
    << "power", "aqi", "average_aqi", "humidity", "temp_dec", "mode",
       "favorite_level", "filter1_life", "f1_hour_used", "use_time",
       "motor1_speed", "motor2_speed", "purify_volume", "led", "led_b",
       "bright", "buzzer", "volume", "child_lock", "rfid_product_id",
       "rfid_tag", "act_sleep", "sleep_mode", "sleep_time", "sleep_data_num",
       "app_extra", "act_det", "button_pressed" >>

DefaultOf(key) ==
    CASE key \in {"power", "led", "buzzer", "child_lock"} -> "off"
      [] key = "mode" -> "auto"
      [] key \in {"led_b", "volume", "act_det", "button_pressed"} -> "null"
      [] key = "rfid_product_id" -> "0:0:0:0"
      [] key = "rfid_tag" -> "00:00:00:00:00:00:0"
      [] key = "act_sleep" -> "close"
      [] key = "sleep_mode" -> "poweroff"
      [] OTHER -> "0"

DEFAULT_VALUE == [i \in 1 .. Len(PropertyKeys) |-> <<PropertyKeys[i], DefaultOf(PropertyKeys[i])>>]

ChunkSize == 15

Chunk1 == SubSeq(PropertyKeys, 1, ChunkSize)

\* Chunk2 starting one key late
Chunk2Late == SubSeq(PropertyKeys, ChunkSize + 2, Len(PropertyKeys))

Chunk2 == SubSeq(PropertyKeys, ChunkSize + 1, Len(PropertyKeys))

----------------------------------------------------------------------------
(* JavaScript objects as ordered entry lists *)

Undefined == "undefined"

HasKey(obj, key) == \E i \in 1 .. Len(obj) : obj[i][1] = key

\* obj[key]
Get(obj, key) ==
    IF HasKey(obj, key)
    THEN obj[CHOOSE i \in 1 .. Len(obj) : obj[i][1] = key][2]
    ELSE Undefined

\* obj[key] = value: a new key goes last, a known key keeps its place
Put(obj, key, value) ==
    IF HasKey(obj, key)
    THEN [i \in 1 .. Len(obj) |-> IF obj[i][1] = key THEN <<key, value>> ELSE obj[i]]
    ELSE Append(obj, <<key, value>>)

RECURSIVE FromEntriesFrom(_, _, _)
FromEntriesFrom(entries, i, obj) ==
    IF i > Len(entries) THEN obj
    ELSE FromEntriesFrom(entries, i + 1, Put(obj, entries[i][1], entries[i][2]))

\* Object.fromEntries(entries)
FromEntries(entries) == FromEntriesFrom(entries, 1, <<>>)

Longer(a, b) == IF Len(a) >= Len(b) THEN Len(a) ELSE Len(b)

\* lodash zip(keys, values): as long as the longer array, undefined where one ends;
\* an undefined key names the property "undefined"
Zip(keys, values) ==
    [i \in 1 .. Longer(keys, values) |->
        << IF i <= Len(keys) THEN keys[i] ELSE Undefined,
           IF i <= Len(values) THEN values[i] ELSE Undefined >>]

\* device.ts status(), lines 109-111: the snapshot built from the two results
Reassemble(result1, result2) == FromEntries(Zip(Chunk1, result1) \o Zip(Chunk2, result2))

----------------------------------------------------------------------------
(* The transport: what a get_prop call may answer *)

\* Properties the modelled device reports with a value other than the default
VaryingKeys == {"power", "mode", "filter1_life", "motor1_speed", "led", "buzzer", "child_lock"}

AltOf(key) ==
    CASE key \in {"power", "led", "buzzer", "child_lock"} -> "on"
      [] key = "mode" -> "favorite"
      [] key = "filter1_life" -> "80"
      [] key = "motor1_speed" -> "1000"
      [] OTHER -> "1"

\* Device states reported: at most MaxChanged properties away from the defaults
Profiles == {p \in SUBSET VaryingKeys : Cardinality(p) <= MaxChanged}

ValuesFor(keys, changed) ==
    [i \in 1 .. Len(keys) |-> IF keys[i] \in changed THEN AltOf(keys[i]) ELSE DefaultOf(keys[i])]

\* A result with as many values as keys, one value too few, or one too many
ResultsFor(keys) ==
    {ValuesFor(keys, p) : p \in Profiles}
        \cup {SubSeq(ValuesFor(keys, {}), 1, Len(keys) - 1), Append(ValuesFor(keys, {}), "0")}

Chunk1Results == ResultsFor(Chunk1)
Chunk2Results == ResultsFor(Chunk2)

\* The few results of the specification that lets poll cycles overlap
Chunk1Few == {ValuesFor(Chunk1, {}), ValuesFor(Chunk1, {"power"})}
Chunk2Few == {ValuesFor(Chunk2, {})}

----------------------------------------------------------------------------
(* accessory.ts: dispatch *)

valueUpdater(key) ==
    CASE key = "power" -> <<"updateActiveState", "updateCurrentAirPurifierState">>
      [] key = "mode" -> <<"updateTargetAirPurifierState", "updateRotationSpeed">>
      [] key = "child_lock" -> <<"updateLockPhysicalControls">>
      [] key = "motor1_speed" -> <<"updateRotationSpeed">>
      [] key = "filter1_life" -> <<"updateFilterState", "updateFilterState">>
      [] key = "aqi" -> <<"updateAirQuality", "updatePM25">>
      [] key = "temp_dec" -> <<"updateTemperature">>
      [] key = "humidity" -> <<"updateHumidity">>
      [] key = "led" -> <<"updateLockPhysicalControls">>
      [] key = "buzzer" -> <<"updateLockPhysicalControls">>
      [] key = "bright" -> <<"updateIlluminance">>
      [] OTHER -> <<>>

\* ReduceStep with the updaters of a changed key put behind the ones collected
ReduceStepAppend(current, updaters, entry) ==
    updaters \o (IF Get(current, entry[1]) /= entry[2] THEN valueUpdater(entry[1]) ELSE <<>>)

\* One step of the reduce of updateState: the updaters of a changed key go in front
ReduceStep(current, updaters, entry) ==
    (IF Get(current, entry[1]) /= entry[2] THEN valueUpdater(entry[1]) ELSE <<>>) \o updaters

RECURSIVE ReduceFrom(_, _, _, _)
ReduceFrom(current, entries, i, updaters) ==
    IF i > Len(entries) THEN updaters
    ELSE ReduceFrom(current, entries, i + 1, ReduceStep(current, updaters, entries[i]))

\* itemsNeedUpdate of updateState, for this.status = current and newState
ItemsNeedUpdate(current, newState) == ReduceFrom(current, newState, 1, <<>>)

\* The arrow functions update... of MiAirPurifier
UpdateFunctions ==
    {"updateActiveState", "updateCurrentAirPurifierState", "updateIlluminance",
     "updateTargetAirPurifierState", "updateLockPhysicalControls", "updateRotationSpeed",
     "updateFilterState", "updateFilterChangeState", "updateAirQuality", "updatePM25",
     "updateTemperature", "updateHumidity", "updateLED", "updateBuzzer"}

\* The properties of this.status an update function reads
ReadsOf(fn) ==
    CASE fn \in {"updateActiveState", "updateCurrentAirPurifierState"} -> {"power"}
      [] fn = "updateIlluminance" -> {"bright"}
      [] fn = "updateTargetAirPurifierState" -> {"mode"}
      [] fn = "updateLockPhysicalControls" -> {"child_lock"}
      [] fn = "updateRotationSpeed" -> {"motor1_speed"}
      [] fn \in {"updateFilterState", "updateFilterChangeState"} -> {"filter1_life"}
      [] fn \in {"updateAirQuality", "updatePM25"} -> {"aqi"}
      [] fn = "updateTemperature" -> {"temp_dec"}
      [] fn = "updateHumidity" -> {"humidity"}
      [] fn = "updateLED" -> {"led"}
      [] fn = "updateBuzzer" -> {"buzzer"}
      [] OTHER -> {}

----------------------------------------------------------------------------
(* accessory.ts: timing and the speed command *)

DEBOUNCE_WAIT == 100
SETTLE_DELAY == 300

\* Time advances in steps of half the debounce wait
TimeStep == DEBOUNCE_WAIT \div 2

\* Rotation speeds the presentation layer submits
Speeds == {40, 100}

NoTimer == -1

\* Math.ceil(speed / 6.25)
Level(speed) == (speed * 100 + 624) \div 625

\* shouldInvoke of a timer that is never set again
shouldInvokeAlways == TRUE

\* lodash debounce, shouldInvoke(time) at the time of the state, without maxWait
shouldInvoke == sinceLastCall < 0 \/ sinceLastCall >= DEBOUNCE_WAIT

\* lodash debounce, remainingWait(time)
remainingWait == DEBOUNCE_WAIT - sinceLastCall

NotStarted == [pc |-> "none", starts |-> 0, mode |-> "", quiet |-> -1, timer |-> NoTimer]

Command(cmd, arg, id, settled) ==
    [cmd |-> cmd, arg |-> arg, by |-> id, result |-> "pending", settled |-> settled]

\* The place in sent of the command that execution id awaits
Awaited(id) == CHOOSE i \in 1 .. Len(sent) : sent[i].by = id /\ sent[i].result = "pending"

Settle(id, result) == [sent EXCEPT ![Awaited(id)].result = result]

\* A timer that is due runs before time advances and before a later event is taken
NoTimerDue ==
    /\ timerId /= 0
    /\ \A id \in 1 .. Len(impls) : ~(impls[id].pc = "wait" /\ impls[id].timer = 0)

Less(ms) == IF ms <= TimeStep THEN 0 ELSE ms - TimeStep

----------------------------------------------------------------------------
(* Steps *)

StepOf(kind) ==
    [kind |-> kind, pc |-> "", before |-> <<>>, invoked |-> <<>>, exited |-> FALSE,
     calls |-> <<>>, results |-> <<>>, overtaken |-> FALSE]

NoStep == StepOf("none")

RemoveAt(s, i) == [j \in 1 .. Len(s) - 1 |-> IF j < i THEN s[j] ELSE s[j + 1]]

\* homebridge emits 'didFinishLaunching': the listener of every accessory starts an
\* interval timer and registers a 'shutdown' listener that holds its intervalId
DidFinishLaunching ==
    /\ launchesLeft > 0
    /\ launchesLeft' = launchesLeft - 1
    /\ intervalActive' = [a \in Accessories |-> Append(intervalActive[a], TRUE)]
    /\ lastStep' = StepOf("didFinishLaunching")
    /\ UNCHANGED <<writeVars, closeCount, shutdownsLeft, pollVars, speedVars>>

RECURSIVE ListenersUpTo(_)
ListenersUpTo(a) == IF a = 0 THEN 0 ELSE Len(intervalActive[a]) + ListenersUpTo(a - 1)

\* The 'shutdown' listeners registered so far, over all accessories
ShutdownListeners == ListenersUpTo(NumAccessories)

\* homebridge emits 'shutdown': each registered listener closes networkClient and
\* clears its interval
Shutdown ==
    /\ shutdownsLeft > 0
    /\ shutdownsLeft' = shutdownsLeft - 1
    /\ closeCount' = closeCount + ShutdownListeners
    /\ intervalActive' = [a \in Accessories |-> [i \in 1 .. Len(intervalActive[a]) |-> FALSE]]
    /\ lastStep' = StepOf("shutdown")
    /\ UNCHANGED <<writeVars, launchesLeft, pollVars, speedVars>>

\* An interval timer of the observed accessory fires: updateState runs up to its
\* await of device.status(), which has sent get_prop for the first chunk
Tick ==
    /\ \E i \in 1 .. Len(intervalActive[Observed]) : intervalActive[Observed][i]
    /\ Len(cycles) < MaxInflight
    /\ cycles' = Append(cycles, [pc |-> "chunk1", calls |-> <<Chunk1>>, response1 |-> <<>>,
                                 overtaken |-> FALSE])
    /\ lastStep' = StepOf("tick")
    /\ UNCHANGED <<writeVars, lifeVars, status, speedVars>>

\* The first get_prop resolves: status() keeps the result and sends the second
GetProp1Resolve(c, result) ==
    /\ cycles[c].pc = "chunk1"
    /\ cycles' = [cycles EXCEPT ![c].pc = "chunk2", ![c].calls = Append(@, Chunk2),
                                ![c].response1 = result]
    /\ lastStep' = NoStep
    /\ UNCHANGED <<writeVars, lifeVars, status, speedVars>>

\* GetPropReject keeping what the first result brought
GetPropRejectPartial(c) ==
    /\ cycles' = RemoveAt(cycles, c)
    /\ status' = IF cycles[c].pc = "chunk2" THEN Reassemble(cycles[c].response1, <<>>) ELSE status
    /\ lastStep' = [StepOf("failed") EXCEPT !.pc = cycles[c].pc, !.before = status]
    /\ UNCHANGED <<writeVars, lifeVars, speedVars>>

\* A get_prop rejects: status() rejects and so does updateState, at its await. The
\* promise of updateState has no handler (setInterval drops it), so the rejection is
\* an unhandled one: Node reports it and runs on, or ends the process, with its
\* timers, its pending callbacks and its listeners
GetPropReject(c) ==
    \E exits \in BOOLEAN :
        /\ cycles' = IF exits THEN <<>> ELSE RemoveAt(cycles, c)
        /\ intervalActive' =
               IF exits
               THEN [a \in Accessories |-> [i \in 1 .. Len(intervalActive[a]) |-> FALSE]]
               ELSE intervalActive
        /\ launchesLeft' = IF exits THEN 0 ELSE launchesLeft
        /\ shutdownsLeft' = IF exits THEN 0 ELSE shutdownsLeft
        /\ lastStep' = [StepOf("failed") EXCEPT !.pc = cycles[c].pc, !.before = status,
                                                !.exited = exits]
        /\ UNCHANGED <<writeVars, closeCount, status, speedVars>>

\* The executions left in flight when execution c finishes: the ones started
\* before it have been overtaken
Finished(c) ==
    RemoveAt([j \in 1 .. Len(cycles) |->
                 IF j < c THEN [cycles[j] EXCEPT !.overtaken = TRUE] ELSE cycles[j]], c)

\* GetProp2Resolve with this.status replaced before the snapshots are compared
GetProp2ResolveSwapFirst(c, result) ==
    /\ cycles[c].pc = "chunk2"
    /\ LET newState == Reassemble(cycles[c].response1, result)
       IN  /\ status' = newState
           /\ lastStep' = [StepOf("dispatched") EXCEPT
                               !.pc = "chunk2", !.before = status,
                               !.invoked = ItemsNeedUpdate(newState, newState),
                               !.calls = cycles[c].calls,
                               !.results = <<cycles[c].response1, result>>,
                               !.overtaken = cycles[c].overtaken]
    /\ cycles' = Finished(c)
    /\ UNCHANGED <<writeVars, lifeVars, speedVars>>

\* The second get_prop resolves: status() returns the snapshot, and updateState
\* runs from its await to its end
GetProp2Resolve(c, result) ==
    /\ cycles[c].pc = "chunk2"
    /\ LET newState == Reassemble(cycles[c].response1, result)
       IN  /\ status' = newState
           /\ lastStep' = [StepOf("dispatched") EXCEPT
                               !.pc = "chunk2", !.before = status,
                               !.invoked = ItemsNeedUpdate(status, newState),
                               !.calls = cycles[c].calls,
                               !.results = <<cycles[c].response1, result>>,
                               !.overtaken = cycles[c].overtaken]
    /\ cycles' = Finished(c)
    /\ UNCHANGED <<writeVars, lifeVars, speedVars>>

\* setRotationSpeed(speed, callback): the debounced function is called
Submit(speed) ==
    /\ Len(submitted) < MaxSubmits
    /\ NoTimerDue
    /\ submitted' = Append(submitted,
           [speed |-> speed, inWindow |-> sinceLastCall >= 0 /\ sinceLastCall < DEBOUNCE_WAIT])
    /\ impls' = Append(impls, NotStarted)
    /\ cb' = Append(cb, <<>>)
    /\ lastArgs' = Len(submitted) + 1
    /\ sinceLastCall' = 0
    /\ timerId' = IF timerId = NoTimer THEN DEBOUNCE_WAIT ELSE timerId
    /\ lastStep' = NoStep
    /\ UNCHANGED <<writeVars, lifeVars, pollVars, sent>>

\* setRotationSpeedImpl(speed, callback) for submission id, up to its first await
ImplStart(id) ==
    LET favorite == Get(status, "mode") = "favorite"
        first == IF favorite
                 THEN Command("set_level_favorite", Level(submitted[id].speed), id, -1)
                 ELSE Command("set_mode", "favorite", id, -1)
    IN  /\ sent' = Append(sent, first)
        /\ impls' = [impls EXCEPT ![id] =
               [pc |-> IF favorite THEN "set_level" ELSE "set_mode",
                starts |-> impls[id].starts + 1,
                mode |-> Get(status, "mode"),
                quiet |-> sinceLastCall,
                timer |-> NoTimer]]

\* The debounce timer runs timerExpired: the trailing edge calls setRotationSpeedImpl
\* with the kept arguments, or the timer is set again for the rest of the wait
TimerExpired ==
    /\ timerId = 0
    /\ IF shouldInvoke
       THEN /\ timerId' = NoTimer
            /\ lastArgs' = 0
            /\ IF lastArgs /= 0 THEN ImplStart(lastArgs) ELSE UNCHANGED <<impls, sent>>
       ELSE /\ timerId' = remainingWait
            /\ UNCHANGED <<lastArgs, impls, sent>>
    /\ lastStep' = NoStep
    /\ UNCHANGED <<writeVars, lifeVars, pollVars, sinceLastCall, submitted, cb>>

\* set_mode resolves: setRotationSpeedImpl goes on to wait(300)
SetModeResolve(id) ==
    /\ impls[id].pc = "set_mode"
    /\ sent' = Settle(id, "ok")
    /\ impls' = [impls EXCEPT ![id].pc = "wait", ![id].timer = SETTLE_DELAY]
    /\ lastStep' = NoStep
    /\ UNCHANGED <<writeVars, lifeVars, pollVars, timerId, lastArgs, sinceLastCall, submitted, cb>>

\* SetModeReject with the error swallowed and the sequence going on
SetModeRejectContinue(id) ==
    /\ impls[id].pc = "set_mode"
    /\ sent' = Settle(id, "error")
    /\ impls' = [impls EXCEPT ![id].pc = "wait", ![id].timer = SETTLE_DELAY]
    /\ lastStep' = NoStep
    /\ UNCHANGED <<writeVars, lifeVars, pollVars, timerId, lastArgs, sinceLastCall, submitted, cb>>

\* set_mode rejects: the catch block calls the callback with the error
SetModeReject(id) ==
    /\ impls[id].pc = "set_mode"
    /\ sent' = Settle(id, "error")
    /\ impls' = [impls EXCEPT ![id].pc = "done"]
    /\ cb' = [cb EXCEPT ![id] = Append(cb[id], "error:set_mode")]
    /\ lastStep' = NoStep
    /\ UNCHANGED <<writeVars, lifeVars, pollVars, timerId, lastArgs, sinceLastCall, submitted>>

\* WaitDone without the wait: set_level_favorite goes out as soon as set_mode resolved
WaitDoneEarly(id) ==
    /\ impls[id].pc = "wait"
    /\ sent' = Append(sent, Command("set_level_favorite", Level(submitted[id].speed), id,
                                    SETTLE_DELAY - impls[id].timer))
    /\ impls' = [impls EXCEPT ![id].pc = "set_level", ![id].timer = NoTimer]
    /\ lastStep' = NoStep
    /\ UNCHANGED <<writeVars, lifeVars, pollVars, timerId, lastArgs, sinceLastCall, submitted, cb>>

\* The timer of wait(300) runs: setRotationSpeedImpl sends set_level_favorite
WaitDone(id) ==
    /\ impls[id].pc = "wait"
    /\ impls[id].timer = 0
    /\ sent' = Append(sent, Command("set_level_favorite", Level(submitted[id].speed), id,
                                    SETTLE_DELAY - impls[id].timer))
    /\ impls' = [impls EXCEPT ![id].pc = "set_level", ![id].timer = NoTimer]
    /\ lastStep' = NoStep
    /\ UNCHANGED <<writeVars, lifeVars, pollVars, timerId, lastArgs, sinceLastCall, submitted, cb>>

\* set_level_favorite resolves: callback(null)
SetLevelResolve(id) ==
    /\ impls[id].pc = "set_level"
    /\ sent' = Settle(id, "ok")
    /\ impls' = [impls EXCEPT ![id].pc = "done"]
    /\ cb' = [cb EXCEPT ![id] = Append(cb[id], "null")]
    /\ lastStep' = NoStep
    /\ UNCHANGED <<writeVars, lifeVars, pollVars, timerId, lastArgs, sinceLastCall, submitted>>

\* SetLevelReject without a catch block: the callback is not called
SetLevelRejectSilent(id) ==
    /\ impls[id].pc = "set_level"
    /\ sent' = Settle(id, "error")
    /\ impls' = [impls EXCEPT ![id].pc = "done"]
    /\ lastStep' = NoStep
    /\ UNCHANGED <<writeVars, lifeVars, pollVars, timerId, lastArgs, sinceLastCall, submitted, cb>>

\* set_level_favorite rejects: the catch block calls the callback with the error
SetLevelReject(id) ==
    /\ impls[id].pc = "set_level"
    /\ sent' = Settle(id, "error")
    /\ impls' = [impls EXCEPT ![id].pc = "done"]
    /\ cb' = [cb EXCEPT ![id] = Append(cb[id], "error:set_level_favorite")]
    /\ lastStep' = NoStep
    /\ UNCHANGED <<writeVars, lifeVars, pollVars, timerId, lastArgs, sinceLastCall, submitted>>

\* TimeStep ms pass
Advance ==
    /\ NoTimerDue
    /\ timerId' = IF timerId = NoTimer THEN NoTimer ELSE Less(timerId)
    /\ sinceLastCall' = IF sinceLastCall < 0 THEN sinceLastCall
                        ELSE IF sinceLastCall + TimeStep >= DEBOUNCE_WAIT THEN DEBOUNCE_WAIT
                        ELSE sinceLastCall + TimeStep
    /\ impls' = [id \in 1 .. Len(impls) |->
                    IF impls[id].pc = "wait"
                    THEN [impls[id] EXCEPT !.timer = Less(impls[id].timer)]
                    ELSE impls[id]]
    /\ lastStep' = NoStep
    /\ UNCHANGED <<writeVars, lifeVars, pollVars, lastArgs, submitted, sent, cb>>

----------------------------------------------------------------------------
(* accessory.ts: the set handlers other than setRotationSpeed *)

SetHandlers ==
    {"setActiveState", "setTargetAirPurifierState", "setLockPhysicalControls", "setLED", "setBuzzer"}

\* The values HomeKit gives a handler: a constant of the characteristic, or a boolean
StatesOf(handler) ==
    CASE handler = "setActiveState" -> {"ACTIVE", "INACTIVE"}
      [] handler = "setTargetAirPurifierState" -> {"AUTO", "MANUAL"}
      [] handler = "setLockPhysicalControls" -> {"CONTROL_LOCK_ENABLED", "CONTROL_LOCK_DISABLED"}
      [] OTHER -> {"true", "false"}

\* The device method a handler calls: the command it sends
CommandOf(handler) ==
    CASE handler = "setActiveState" -> "set_power"
      [] handler = "setTargetAirPurifierState" -> "set_mode"
      [] handler = "setLockPhysicalControls" -> "set_child_lock"
      [] handler = "setLED" -> "set_led"
      [] OTHER -> "set_buzzer"

\* The argument a handler computes from the value it was given
ArgOf(handler, state) ==
    CASE handler = "setActiveState" -> IF state = "ACTIVE" THEN "on" ELSE "off"
      [] handler = "setTargetAirPurifierState" -> IF state = "AUTO" THEN "auto" ELSE "favorite"
      [] handler = "setLockPhysicalControls" ->
             IF state = "CONTROL_LOCK_ENABLED" THEN "on" ELSE "off"
      [] OTHER -> IF state = "true" THEN "on" ELSE "off"

\* What a handler gives its callback after the command succeeded
SuccessOf(handler) == IF handler = "setLockPhysicalControls" THEN Undefined ELSE "null"

\* setActiveState returns early, with callback(), when the snapshot has the power state
SkipsSend(handler, state) ==
    handler = "setActiveState" /\ ArgOf(handler, state) = Get(status, "power")

\* A set handler is called: it runs up to its await of the device method, or,
\* for setActiveState with nothing to change, to its return
SetCharacteristic(handler, state) ==
    /\ Len(writes) < MaxWrites
    /\ writes' = Append(writes,
           [handler |-> handler, cmd |-> CommandOf(handler), arg |-> ArgOf(handler, state),
            pc |-> IF SkipsSend(handler, state) THEN "done" ELSE "await",
            sends |-> IF SkipsSend(handler, state) THEN 0 ELSE 1,
            failures |-> 0,
            cb |-> IF SkipsSend(handler, state) THEN <<Undefined>> ELSE <<>>])
    /\ lastStep' = NoStep
    /\ UNCHANGED <<lifeVars, pollVars, speedVars>>

\* The command resolves: the handler calls its callback without an error
WriteResolve(w) ==
    /\ writes[w].pc = "await"
    /\ writes' = [writes EXCEPT ![w].pc = "done",
                                ![w].cb = Append(@, SuccessOf(writes[w].handler))]
    /\ lastStep' = NoStep
    /\ UNCHANGED <<lifeVars, pollVars, speedVars>>

\* WriteReject with the command sent once more in place of the callback
WriteRejectRetry(w) ==
    /\ writes[w].pc = "await"
    /\ writes' = [writes EXCEPT ![w].failures = @ + 1, ![w].sends = @ + 1]
    /\ lastStep' = NoStep
    /\ UNCHANGED <<lifeVars, pollVars, speedVars>>

\* The command rejects: the catch block calls the callback with the error
WriteReject(w) ==
    /\ writes[w].pc = "await"
    /\ writes' = [writes EXCEPT ![w].pc = "done",
                                ![w].failures = @ + 1,
                                ![w].cb = Append(@, "error:" \o writes[w].cmd)]
    /\ lastStep' = NoStep
    /\ UNCHANGED <<lifeVars, pollVars, speedVars>>

----------------------------------------------------------------------------
(* Specifications *)

InitLife ==
    /\ intervalActive = [a \in Accessories |-> <<>>]
    /\ closeCount = 0

InitPoll ==
    /\ status = DEFAULT_VALUE
    /\ cycles = <<>>
    /\ lastStep = NoStep

InitWrite == writes = <<>>

InitSpeed ==
    /\ timerId = NoTimer
    /\ lastArgs = 0
    /\ sinceLastCall = -1
    /\ submitted = <<>>
    /\ impls = <<>>
    /\ sent = <<>>
    /\ cb = <<>>

\* Any transport latency and any sequence of lifecycle events, over a transport
\* that gives few different results
Init ==
    /\ InitLife /\ InitPoll /\ InitSpeed /\ InitWrite
    /\ launchesLeft = MaxLaunch
    /\ shutdownsLeft = MaxShutdown

Next ==
    \/ DidFinishLaunching
    \/ Shutdown
    \/ Tick
    \/ \E c \in 1 .. Len(cycles) : \E r \in Chunk1Few : GetProp1Resolve(c, r)
    \/ \E c \in 1 .. Len(cycles) : GetPropReject(c)
    \/ \E c \in 1 .. Len(cycles) : \E r \in Chunk2Few : GetProp2Resolve(c, r)

Spec == Init /\ [][Next]_vars

\* One start and one shutdown, a transport that answers within the poll interval,
\* and every result of Chunk1Results and Chunk2Results
InitData ==
    /\ InitLife /\ InitPoll /\ InitSpeed /\ InitWrite
    /\ launchesLeft = 1
    /\ shutdownsLeft = 1

NextData ==
    \/ DidFinishLaunching
    \/ Shutdown
    \/ (cycles = <<>> /\ Tick)
    \/ \E c \in 1 .. Len(cycles) : \E r \in Chunk1Results : GetProp1Resolve(c, r)
    \/ \E c \in 1 .. Len(cycles) : GetPropReject(c)
    \/ \E c \in 1 .. Len(cycles) : \E r \in Chunk2Results : GetProp2Resolve(c, r)

SpecData == InitData /\ [][NextData]_vars

\* The snapshot of a device in favorite mode, as a poll cycle leaves it in this.status
FavoriteSnapshot == Reassemble(ValuesFor(Chunk1, {"mode"}), ValuesFor(Chunk2, {}))

\* The speed command alone, with the snapshot some earlier poll cycle left, timers
\* that run when they are due, and a slider that reports each change of value
InitCommand ==
    /\ InitLife /\ InitSpeed /\ InitWrite
    /\ status \in {DEFAULT_VALUE, FavoriteSnapshot}
    /\ cycles = <<>>
    /\ lastStep = NoStep
    /\ launchesLeft = 0
    /\ shutdownsLeft = 0

\* The presentation layer submits a speed when it differs from the one before
NewSpeed(speed) == IF submitted = <<>> THEN TRUE ELSE submitted[Len(submitted)].speed /= speed

NextCommand ==
    \/ \E speed \in Speeds : NewSpeed(speed) /\ Submit(speed)
    \/ TimerExpired
    \/ \E id \in 1 .. Len(impls) : SetModeResolve(id)
    \/ \E id \in 1 .. Len(impls) : SetModeReject(id)
    \/ \E id \in 1 .. Len(impls) : WaitDone(id)
    \/ \E id \in 1 .. Len(impls) : SetLevelResolve(id)
    \/ \E id \in 1 .. Len(impls) : SetLevelReject(id)
    \/ Advance

SpecCommand == InitCommand /\ [][NextCommand]_vars

\* The speed command and the lifecycle events together: homebridge delivers no
\* request after 'shutdown', the transport accepts every command, and the snapshot
\* is the default one
InitStop ==
    /\ InitLife /\ InitPoll /\ InitSpeed /\ InitWrite
    /\ launchesLeft = 1
    /\ shutdownsLeft = 1

NextStop ==
    \/ DidFinishLaunching
    \/ Shutdown
    \/ \E speed \in Speeds : shutdownsLeft > 0 /\ NewSpeed(speed) /\ Submit(speed)
    \/ TimerExpired
    \/ \E id \in 1 .. Len(impls) : SetModeResolve(id)
    \/ \E id \in 1 .. Len(impls) : WaitDone(id)
    \/ \E id \in 1 .. Len(impls) : SetLevelResolve(id)
    \/ Advance

SpecStop == InitStop /\ [][NextStop]_vars


\* The snapshot of a device that is switched on
PowerOnSnapshot == Reassemble(ValuesFor(Chunk1, {"power"}), ValuesFor(Chunk2, {}))

\* The set handlers alone, with the snapshot some earlier poll cycle left
InitWriteOnly ==
    /\ InitLife /\ InitSpeed /\ InitWrite
    /\ status \in {DEFAULT_VALUE, PowerOnSnapshot}
    /\ cycles = <<>>
    /\ lastStep = NoStep
    /\ launchesLeft = 0
    /\ shutdownsLeft = 0

NextWrite ==
    \/ \E handler \in SetHandlers : \E state \in StatesOf(handler) : SetCharacteristic(handler, state)
    \/ \E w \in 1 .. Len(writes) : WriteResolve(w)
    \/ \E w \in 1 .. Len(writes) : WriteReject(w)

SpecWrite == InitWriteOnly /\ [][NextWrite]_vars

----------------------------------------------------------------------------
(* Properties *)

Range(seq) == {seq[i] : i \in 1 .. Len(seq)}

NoDuplicates(seq) == \A i, j \in 1 .. Len(seq) : seq[i] = seq[j] => i = j

\* The place of the first call of update function fn in a dispatch
First(seq, fn) == CHOOSE i \in 1 .. Len(seq) : seq[i] = fn /\ \A j \in 1 .. i - 1 : seq[j] /= fn

Updaters(key) == Range(valueUpdater(key))

\* The places in PropertyKeys of the keys whose value a poll cycle changed
ChangedPlaces(before, after) ==
    {i \in 1 .. Len(PropertyKeys) : Get(before, PropertyKeys[i]) /= Get(after, PropertyKeys[i])}

\* The update functions of the changed keys at the given places
UpdatersAt(places) == UNION {Updaters(PropertyKeys[i]) : i \in places}

\* C1: poll cycles never overlap: at most one execution of updateState is between
\* the start of its fetch and the end of its dispatch, whatever the latency
C1_NoOverlappingCycles == Len(cycles) <= 1

\* C2: a step in which a get_prop call of either chunk fails leaves this.status as
\* it was and calls no update function
C2_FailedFetchKeepsSnapshot ==
    [][lastStep'.kind = "failed" => (status' = status /\ lastStep'.invoked = <<>>)]_vars

\* C2 witness: the second call failed and a fetched snapshot was kept
C2_Witness ==
    /\ lastStep.kind = "failed"
    /\ lastStep.pc = "chunk2"
    /\ status /= DEFAULT_VALUE

\* C3: a result with more or fewer values than keys fails the fetch, so this.status
\* always holds exactly the declared keys, in order, none of them undefined
C3_MismatchedResultFailsFetch ==
    /\ [i \in 1 .. Len(status) |-> status[i][1]] = PropertyKeys
    /\ \A i \in 1 .. Len(status) : status[i][2] /= Undefined

\* C4: one poll cycle calls each update function at most once
C4_EachActionAtMostOnce == lastStep.kind = "dispatched" => NoDuplicates(lastStep.invoked)

\* C5 as claimed: when key A is declared before key B and both changed, every
\* update function of A is called before every update function of B that no
\* changed key declared before B has
C5_DeclarationOrder ==
    lastStep.kind = "dispatched" =>
        LET changed == ChangedPlaces(lastStep.before, status)
        IN  \A a, b \in changed :
                a < b =>
                    \A fa \in Updaters(PropertyKeys[a]) :
                        \A fb \in Updaters(PropertyKeys[b]) \ UpdatersAt({k \in changed : k < b}) :
                            /\ fa \in Range(lastStep.invoked)
                            /\ fb \in Range(lastStep.invoked)
                            /\ First(lastStep.invoked, fa) < First(lastStep.invoked, fb)

\* C5 as amended: when key A is declared before key B and both changed, every update
\* function of B is called before every update function of A that no changed key
\* declared after A has
C5_ReverseDeclarationOrder ==
    lastStep.kind = "dispatched" =>
        LET changed == ChangedPlaces(lastStep.before, status)
        IN  \A a, b \in changed :
                a < b =>
                    \A fb \in Updaters(PropertyKeys[b]) :
                        \A fa \in Updaters(PropertyKeys[a]) \ UpdatersAt({k \in changed : k > a}) :
                            /\ fa \in Range(lastStep.invoked)
                            /\ fb \in Range(lastStep.invoked)
                            /\ First(lastStep.invoked, fb) < First(lastStep.invoked, fa)

\* C5 witness: power and mode both changed, and the functions of mode were called first
C5_Witness ==
    /\ lastStep.kind = "dispatched"
    /\ lastStep.invoked = << "updateTargetAirPurifierState", "updateRotationSpeed",
                             "updateActiveState", "updateCurrentAirPurifierState" >>

\* A later call came within the wait of submission id
Superseded(id) == id < Len(submitted) /\ submitted[id + 1].inWindow

\* The quiet window after submission id has passed and its timer has run
WindowClosed(id) ==
    \/ id < Len(submitted) /\ ~submitted[id + 1].inWindow
    \/ id = Len(submitted) /\ sinceLastCall >= DEBOUNCE_WAIT /\ timerId = NoTimer

\* C6: of the calls of a burst, each less than the wait after the one before, only
\* the last starts setRotationSpeedImpl, once, and not before the wait has passed
\* since that call
C6_BurstAppliesLastOnce ==
    \A id \in 1 .. Len(submitted) :
        /\ impls[id].starts <= 1
        /\ Superseded(id) => impls[id].starts = 0
        /\ WindowClosed(id) => impls[id].starts = 1
        /\ impls[id].starts = 1 => impls[id].quiet >= DEBOUNCE_WAIT
        /\ \A i \in 1 .. Len(sent) :
               (sent[i].by = id /\ sent[i].cmd = "set_level_favorite")
                   => sent[i].arg = Level(submitted[id].speed)

\* C6 witness: three calls in one burst, the last with another speed than the one
\* before and later than it, and setRotationSpeedImpl started for the last
C6_Witness ==
    /\ Len(submitted) = 3
    /\ submitted[2].inWindow
    /\ submitted[3].inWindow
    /\ submitted[2].speed /= submitted[3].speed
    /\ impls[3].starts = 1
    /\ impls[3].quiet >= DEBOUNCE_WAIT
    /\ \E i \in 1 .. Len(sent) : sent[i].by = 3

CommandsOf(id) == {i \in 1 .. Len(sent) : sent[i].by = id}

\* C7: the callback of a superseded call is never called; the callback of the call
\* that won is called at most once, not before its commands are settled, and once
\* they are, exactly once with null or with the error
C7_CallbackOnlyForWinner ==
    \A id \in 1 .. Len(submitted) :
        /\ Superseded(id) => cb[id] = <<>>
        /\ Len(cb[id]) <= 1
        /\ impls[id].pc /= "done" => cb[id] = <<>>
        /\ impls[id].pc = "done" =>
               /\ Len(cb[id]) = 1
               /\ cb[id][1] = "null" <=> \A i \in CommandsOf(id) : sent[i].result = "ok"
               /\ cb[id][1] /= "null" <=> \E i \in CommandsOf(id) : sent[i].result = "error"

\* C7 witness: the first call was superseded, the second applied with success
C7_Witness ==
    /\ Len(submitted) >= 2
    /\ Superseded(1)
    /\ impls[2].pc = "done"
    /\ cb[2] = <<"null">>
    /\ cb[1] = <<>>

\* C8: an execution that read mode 'favorite' sends set_level_favorite alone; one
\* that read another mode sends set_level_favorite only after its set_mode
\* 'favorite' succeeded and the settle delay passed
C8_ModeGate ==
    \A i \in 1 .. Len(sent) :
        LET id == sent[i].by
        IN  /\ impls[id].mode = "favorite" =>
                /\ sent[i].cmd = "set_level_favorite"
                /\ CommandsOf(id) = {i}
            /\ (impls[id].mode /= "favorite" /\ sent[i].cmd = "set_level_favorite") =>
                /\ \E j \in 1 .. i - 1 :
                       /\ sent[j].by = id
                       /\ sent[j].cmd = "set_mode"
                       /\ sent[j].arg = "favorite"
                       /\ sent[j].result = "ok"
                /\ sent[i].settled >= SETTLE_DELAY

\* C8 witness: set_level_favorite was sent by an execution that read mode 'auto'
C8_Witness ==
    \E i \in 1 .. Len(sent) :
        /\ sent[i].cmd = "set_level_favorite"
        /\ impls[sent[i].by].mode = "auto"

\* C9: after a failed set_mode no set_level_favorite is sent for the request and the
\* callback gets the error of set_mode; after a failed set_level_favorite it gets
\* that error; the callback is called once
C9_SequenceErrors ==
    \A i \in 1 .. Len(sent) :
        LET id == sent[i].by
        IN  sent[i].result = "error" =>
                /\ cb[id] = <<"error:" \o sent[i].cmd>>
                /\ sent[i].cmd = "set_mode" =>
                       \A j \in CommandsOf(id) : sent[j].cmd /= "set_level_favorite"

\* C9 witness: one request failed at set_mode, another at set_level_favorite
C9_Witness ==
    /\ \E id \in 1 .. Len(cb) : cb[id] = <<"error:set_mode">>
    /\ \E id \in 1 .. Len(cb) : cb[id] = <<"error:set_level_favorite">>

\* C10: a 'shutdown' event, whatever came before it, leaves no interval timer
\* running and networkClient closed exactly once
C10_ShutdownClosesOnce ==
    lastStep.kind = "shutdown" =>
        /\ closeCount = 1
        /\ \A a \in Accessories : \A i \in 1 .. Len(intervalActive[a]) : ~intervalActive[a][i]

\* The observed accessory's poll loop has been stopped: a 'shutdown' listener ran
\* and none of its interval timers is left
LoopStopped ==
    /\ closeCount > 0
    /\ \A i \in 1 .. Len(intervalActive[Observed]) : ~intervalActive[Observed][i]

\* C11: once shutdown has stopped the loop, a fetch that was in flight may complete
\* but this.status is not replaced and no update function is called
C11_ResultDiscardedAfterShutdown == LoopStopped => lastStep.kind /= "dispatched"

\* C12: once a 'shutdown' listener has run, setRotationSpeedImpl is not started for
\* a call whose wait had not yet passed, so no command is sent for such a call
C12_ShutdownCancelsCoalescer ==
    [][closeCount > 0 =>
          \A id \in 1 .. Len(impls) :
              impls[id].starts = 0 =>
                  /\ impls'[id].starts = 0
                  /\ \A i \in 1 .. Len(sent') : sent'[i].by /= id]_vars

\* C13: a set handler whose command failed has called its callback once, with the
\* error of that command, and the command was sent once
C13_FailedWriteReportsOnce ==
    \A w \in 1 .. Len(writes) :
        /\ writes[w].sends <= 1
        /\ Len(writes[w].cb) <= 1
        /\ writes[w].failures > 0 =>
               /\ writes[w].pc = "done"
               /\ writes[w].cb = <<"error:" \o writes[w].cmd>>
               /\ writes[w].sends = 1

\* C13 witness: every call of a set handler failed, one of them a set_power that
\* setActiveState did send
C13_Witness ==
    /\ Len(writes) = MaxWrites
    /\ \A w \in 1 .. Len(writes) : writes[w].failures = 1 /\ Len(writes[w].cb) = 1
    /\ \E w \in 1 .. Len(writes) : writes[w].cmd = "set_power"

\* C14: a failed fetch is handled inside the poll cycle: it does not end the process,
\* and the loop is left waiting for its next tick
C14_FailedCycleNotFatal == lastStep.kind = "failed" => ~lastStep.exited

\* How often a poll cycle called update function fn
Calls(seq, fn) == Cardinality({i \in 1 .. Len(seq) : seq[i] = fn})

\* C15: a poll cycle that starts from the default snapshot and fetches power 'on'
\* calls updateActiveState once and updateCurrentAirPurifierState once
C15_FirstCyclePowerOn ==
    (/\ lastStep.kind = "dispatched"
     /\ lastStep.before = DEFAULT_VALUE
     /\ Get(status, "power") = "on") =>
        /\ Calls(lastStep.invoked, "updateActiveState") = 1
        /\ Calls(lastStep.invoked, "updateCurrentAirPurifierState") = 1

\* C15 witness: the cycle that found power 'on' against the defaults has dispatched
C15_Witness ==
    /\ lastStep.kind = "dispatched"
    /\ lastStep.before = DEFAULT_VALUE
    /\ Get(lastStep.before, "power") = "off"
    /\ Get(status, "power") = "on"
    /\ lastStep.invoked = <<"updateActiveState", "updateCurrentAirPurifierState">>

\* The i-th value of a result, undefined when the result has none
ValueAt(result, i) == IF i <= Len(result) THEN result[i] ELSE Undefined

IsDeclared(key) == \E i \in 1 .. Len(PropertyKeys) : PropertyKeys[i] = key

\* The snapshot has the declared keys in declared order, and gives the i-th key of
\* each key list sent the i-th value of the result for that list
PairedByPosition ==
    /\ SelectSeq([i \in 1 .. Len(status) |-> status[i][1]], IsDeclared) = PropertyKeys
    /\ \A k \in 1 .. Len(lastStep.calls) :
           \A i \in 1 .. Len(lastStep.calls[k]) :
               Get(status, lastStep.calls[k][i]) = ValueAt(lastStep.results[k], i)

\* C16 as claimed: the key list has 27 keys, a fetch sends two get_prop calls, for the
\* keys [0,15) and [15,27), and the snapshot pairs keys and values by position
C16_TwoChunksOf27 ==
    lastStep.kind = "dispatched" =>
        /\ Len(PropertyKeys) = 27
        /\ lastStep.calls = <<SubSeq(PropertyKeys, 1, 15), SubSeq(PropertyKeys, 16, 27)>>
        /\ PairedByPosition

\* C16 as amended: the key list has 28 keys, a fetch sends two get_prop calls, for the
\* keys [0,15) and [15,28), and the snapshot pairs keys and values by position
C16_TwoChunksOf28 ==
    lastStep.kind = "dispatched" =>
        /\ Len(PropertyKeys) = 28
        /\ lastStep.calls = <<SubSeq(PropertyKeys, 1, 15), SubSeq(PropertyKeys, 16, 28)>>
        /\ PairedByPosition

\* C16 witness: a fetch whose second result reports the buzzer on, the second of the
\* thirteen keys of the second call, has been accepted
C16_Witness ==
    /\ lastStep.kind = "dispatched"
    /\ Len(lastStep.calls) = 2
    /\ Len(lastStep.calls[2]) = 13
    /\ Len(lastStep.results[2]) = 13
    /\ lastStep.calls[2][2] = "buzzer"
    /\ lastStep.results[2][2] = "on"
    /\ Get(status, "buzzer") = "on"

\* The poll cycle just dispatched changed the value of the property
Changed(key) == Get(lastStep.before, key) /= Get(status, key)

\* C17: every update function a poll cycle calls reads a property whose value the
\* cycle changed
C17_OnlyAffectedDispatched ==
    lastStep.kind = "dispatched" =>
        \A fn \in Range(lastStep.invoked) : \E key \in ReadsOf(fn) : Changed(key)

\* C18: a poll cycle that changed a property calls every update function that reads
\* it, with the LED and the buzzer enabled in the configuration
C18_EveryReaderDispatched ==
    lastStep.kind = "dispatched" =>
        \A fn \in UpdateFunctions :
            (\E key \in ReadsOf(fn) : Changed(key)) => fn \in Range(lastStep.invoked)

\* C19: the snapshot of an execution of updateState is not accepted once the snapshot
\* of an execution started after it has been accepted
C19_SnapshotNeverGoesBack == lastStep.kind = "dispatched" => ~lastStep.overtaken

\* The executions of setRotationSpeedImpl that have started and not yet returned
InFlight == {id \in 1 .. Len(impls) : impls[id].pc \in {"set_mode", "wait", "set_level"}}

\* The set_level_favorite commands reached the transport in the order of the calls
\* of setRotationSpeed they apply
LevelsInSubmissionOrder ==
    \A i, j \in 1 .. Len(sent) :
        (/\ i < j
         /\ sent[i].cmd = "set_level_favorite"
         /\ sent[j].cmd = "set_level_favorite") => sent[i].by < sent[j].by

\* C20: at most one execution of setRotationSpeedImpl is in flight, and the
\* set_level_favorite commands reach the transport in the order of the calls they
\* apply, so the last one sent is that of the latest call applied
C20_SpeedWritesSerialized ==
    /\ Cardinality(InFlight) <= 1
    /\ LevelsInSubmissionOrder

====
